---- MODULE Spec2Model ----
(***************************************************************************)
(* A model of GPT_Translate_html: the rate-controlled executor             *)
(* (rate_controller.py), the inline grouping extractor, the segmenter and  *)
(* the translation orchestrator (translate.py).                            *)
(***************************************************************************)
EXTENDS Integers, Sequences, FiniteSets, TLC

VARIABLES
    \* ---- RateController (rate_controller.py) ----
    sw,             \* self._sw: the FIFO window; each timestamp t is held as its age now - t, saturated at Period
    t_lock,         \* self._t_lock: its holder or Free
    a_lock,         \* self._a_lock: its holder or Free
    backoff_delay,  \* self.backoff_delay
    mode,           \* per caller: "async" (wrapper around _arun), "sync" (wrapper around _run), "off" (never calls)
    pc,             \* per caller: where it stands in _run / _arun
    num_retry,      \* per caller: the local num_retry
    local_delay,    \* per caller: _run's local backoff_delay
    rem,            \* per caller: time left of the sleep it is in
    result,         \* per caller: "none", "ok" (returned) or "exhausted" (raised 'Maximum retry reached')
    calls,          \* per caller: how many calls of the wrapper it has begun
    wrapped,        \* per caller: the failure carried by the raised error
    outs,           \* history, per caller: the outcomes of the invocations of func, in order
    waits,          \* history, per caller: the delays slept before each retry, in order
    adm,            \* history: ages of the last Limit admissions (timestamps pushed), saturated at Period
    span,           \* history: at the last admission, the time since the admission Limit admissions before it (saturated at Period)
    streak,         \* history: eligible failures that grew self.backoff_delay since the last success
    \* ---- get_text_group_inline (translate.py) ----
    tree,           \* the markup tree under the document root: its nodes in document order, each with its parent
    extracted,      \* whether get_text_group_inline has run
    groups_map,     \* its return value: the ordered mapping key -> InlineGroup, as a sequence of entries
    made,           \* the last direct construction of an InlineGroup: its arguments, and the group or what was raised
    \* ---- segment_groups_map (translate.py) ----
    sg_map,         \* the groups_map argument, as its entries in order
    sg_counter,     \* the token_counter argument: text -> number of tokens
    sg_max,         \* the max_token argument
    sg_ret,         \* the list of segments returned
    sg_done,        \* whether segment_groups_map has returned
    \* ---- translation_pipeline, translate_groups, group_fit_in (translate.py) ----
    soup,           \* the document being translated: a markup tree as `tree`, its text leaves replaced in place
    segments,       \* groups_map_segments: the segments the pipeline made
    tg,             \* per segment: its translate_groups task (where it stands, the reply, its fit-in tasks, what it gave)
    pl,             \* translation_pipeline itself: where it stands and what it returned or raised
    \* ---- restruct (translate.py) ----
    rs,             \* one call of restruct: its arguments, its locals, the requests it made, what it gave
    \* ---- match_score, validate_fit_in (translate.py) ----
    ms              \* one call of match_score or validate_fit_in: its arguments and what it gave

rcVars == <<sw, t_lock, a_lock, backoff_delay, mode, pc, num_retry, local_delay,
            rem, result, calls, wrapped, outs, waits, adm, span, streak>>

exVars == <<tree, extracted, groups_map, made>>

sgVars == <<sg_map, sg_counter, sg_max, sg_ret, sg_done>>

trVars == <<soup, segments, tg, pl>>

vars == <<rcVars, exVars, sgVars, trVars, rs, ms>>

\* what the operations of one component leave alone
exceptRC == <<exVars, sgVars, trVars, rs, ms>>
exceptEx == <<rcVars, sgVars, trVars, rs, ms>>
exceptSg == <<rcVars, exVars, trVars, rs, ms>>
exceptTr == <<rcVars, exVars, sgVars, rs, ms>>
exceptRs == <<rcVars, exVars, sgVars, segments, tg, pl, ms>>
exceptMs == <<rcVars, exVars, sgVars, trVars, rs>>

----------------------------------------------------------------------------
(* Bounds of the model and constants of the program *)

Limit == 2          \* RateController(limit=...)
Period == 3         \* RateController(period_sec=...)
MaxRetry == 1       \* RateController(backoff_max_retry=...)
InitDelay == 1      \* backoff_init_delay
ExpBase == 2        \* backoff_exp_base
DelayCap == 300     \* min(self.backoff_delay, 300)
MaxCalls == 6       \* calls of the wrapper one caller makes, at most
MaxNodes == 4       \* nodes of the markup tree under the document root, at most
MaxShreds == 2      \* length of the sequences given to the InlineGroup constructor, at most
MaxGroups == 4      \* groups in the map given to the segmenter, at most
MaxCount == 3       \* tokens a token counter gives one text, at most
MaxBudget == 3      \* max_token, at most
RestructMaxRetry == 2   \* max_retry of restruct (10 in the source)
MaxText == 2        \* characters of a text given to match_score, at most
MaxThreadCalls == 2 \* calls of the synchronous wrapper one thread makes, at most

Callers == {"c1", "c2"}
Free == "free"
NoError == [none |-> TRUE]

\* An exception class and an instance of it are different objects.
ErrType(n) == [type |-> n]
ErrInstance(n) == [instance_of |-> n]

\* backoff_on_errors as openai_api_chat.py configures it
BackoffOnErrors == {ErrType("RateLimitError"), ErrType("APIError")}

\* what one invocation of the wrapped operation may do
Ok == [returned |-> TRUE]
Failures == {ErrInstance("RateLimitError"), ErrInstance("ValueError")}
Outcomes == {Ok} \cup Failures

\* random.uniform(-1, 1), on the integer grid
Jitter == {-1, 0, 1}

Min(a, b) == IF a < b THEN a ELSE b

RECURSIVE Pow(_, _)
Pow(b, k) == IF k = 0 THEN 1 ELSE b * Pow(b, k - 1)

----------------------------------------------------------------------------
(* RateController *)

\* any(isinstance(e, e_type) for e_type in self.backoff_on_errors)
IsInstanceOfAny(e) == \E t \in BackoffOnErrors : e.instance_of = t.type

\* e in self.backoff_on_errors
InBackoffOnErrors(e) == e \in BackoffOnErrors

\* self._sw.full()
Full(q) == Len(q) >= Limit

\* the bookkeeping of one admission (a timestamp pushed by the gate)
Admit ==
    /\ span' = IF Len(adm) = Limit THEN adm[1] ELSE Period
    /\ adm' = Append(IF Len(adm) = Limit THEN Tail(adm) ELSE adm, 0)

LockFree(c) == IF mode[c] = "async" THEN a_lock = Free ELSE t_lock = Free

SetLock(c, v) ==
    IF mode[c] = "async" THEN a_lock' = v /\ UNCHANGED t_lock
                         ELSE t_lock' = v /\ UNCHANGED a_lock

\* (mutant) the gate sleeps one unit short
GateSleepShort(lag) == Period - lag - 1

\* the sleep of the gate: period - lag
GateSleep(lag) == Period - lag

\* _block_by_rate / _ablock_by_rate, entered with the caller's lock taken, up to its sleep
BlockByRate(c) ==
    /\ UNCHANGED exceptRC
    /\ pc[c] = "gate"
    /\ LockFree(c)
    /\ IF Full(sw)
       THEN LET last == Head(sw)
                lag == last
            IN IF lag < Period
               THEN /\ sw' = Tail(sw)
                    /\ SetLock(c, c)
                    /\ rem' = [rem EXCEPT ![c] = GateSleep(lag)]
                    /\ pc' = [pc EXCEPT ![c] = "gate_sleep"]
                    /\ UNCHANGED <<adm, span>>
               ELSE /\ sw' = Append(Tail(sw), 0)
                    /\ Admit
                    /\ pc' = [pc EXCEPT ![c] = "call"]
                    /\ UNCHANGED <<t_lock, a_lock, rem>>
       ELSE /\ sw' = Append(sw, 0)
            /\ Admit
            /\ pc' = [pc EXCEPT ![c] = "call"]
            /\ UNCHANGED <<t_lock, a_lock, rem>>
    /\ UNCHANGED <<backoff_delay, mode, calls, num_retry, local_delay, result, wrapped,
                   outs, waits, streak>>

\* the sleep is over: self._sw.put(time.time()), which blocks while the queue is full; the lock is released
BlockWake(c) ==
    /\ UNCHANGED exceptRC
    /\ pc[c] = "gate_sleep"
    /\ rem[c] = 0
    /\ ~Full(sw)
    /\ sw' = Append(sw, 0)
    /\ Admit
    /\ SetLock(c, Free)
    /\ pc' = [pc EXCEPT ![c] = "call"]
    /\ UNCHANGED <<backoff_delay, mode, calls, num_retry, local_delay, rem, result, wrapped,
                   outs, waits, streak>>

\* (mutant) the retry ceiling is hit one failure early
ExhaustedEarly(n) == n >= MaxRetry

\* if num_retry > self.backoff_max_retry
Exhausted(n) == n > MaxRetry

\* (mutant) the delay grows without the cap
GrowDelayNoCap(d, j) == d * (ExpBase + j)

\* self.backoff_delay *= (base + uniform(-1, 1)); self.backoff_delay = min(self.backoff_delay, 300)
GrowDelay(d, j) == Min(d * (ExpBase + j), DelayCap)

\* _arun: ret = await func(...); self.backoff_delay = self.backoff_init_delay; return ret
ArunReturn(c) ==
    /\ UNCHANGED exceptRC
    /\ pc[c] = "call"
    /\ mode[c] = "async"
    /\ backoff_delay' = InitDelay
    /\ streak' = 0
    /\ outs' = [outs EXCEPT ![c] = Append(@, Ok)]
    /\ result' = [result EXCEPT ![c] = "ok"]
    /\ pc' = [pc EXCEPT ![c] = "done"]
    /\ UNCHANGED <<sw, t_lock, a_lock, mode, calls, num_retry, local_delay, rem, wrapped,
                   waits, adm, span>>

\* _arun: except Exception as e
ArunExcept(c, e, j) ==
    /\ UNCHANGED exceptRC
    /\ pc[c] = "call"
    /\ mode[c] = "async"
    /\ outs' = [outs EXCEPT ![c] = Append(@, e)]
    /\ num_retry' = [num_retry EXCEPT ![c] = @ + 1]
    /\ IF Exhausted(num_retry[c] + 1)
       THEN /\ result' = [result EXCEPT ![c] = "exhausted"]
            /\ wrapped' = [wrapped EXCEPT ![c] = e]
            /\ pc' = [pc EXCEPT ![c] = "done"]
            /\ UNCHANGED <<backoff_delay, rem, waits, streak>>
       ELSE /\ IF IsInstanceOfAny(e)
               THEN /\ rem' = [rem EXCEPT ![c] = backoff_delay]
                    /\ waits' = [waits EXCEPT ![c] = Append(@, backoff_delay)]
                    /\ backoff_delay' = GrowDelay(backoff_delay, j)
                    /\ streak' = streak + 1
               ELSE /\ rem' = [rem EXCEPT ![c] = InitDelay]
                    /\ waits' = [waits EXCEPT ![c] = Append(@, InitDelay)]
                    /\ UNCHANGED <<backoff_delay, streak>>
            /\ pc' = [pc EXCEPT ![c] = "backoff_sleep"]
            /\ UNCHANGED <<result, wrapped>>
    /\ UNCHANGED <<sw, t_lock, a_lock, mode, calls, local_delay, adm, span>>

\* the backoff sleep is over: the loop goes round to the gate
Retry(c) ==
    /\ UNCHANGED exceptRC
    /\ pc[c] = "backoff_sleep"
    /\ rem[c] = 0
    /\ pc' = [pc EXCEPT ![c] = "gate"]
    /\ UNCHANGED <<sw, t_lock, a_lock, backoff_delay, mode, calls, num_retry, local_delay,
                   rem, result, wrapped, outs, waits, adm, span, streak>>

\* _run: return func(...)
RunReturn(c) ==
    /\ UNCHANGED exceptRC
    /\ pc[c] = "call"
    /\ mode[c] = "sync"
    /\ outs' = [outs EXCEPT ![c] = Append(@, Ok)]
    /\ result' = [result EXCEPT ![c] = "ok"]
    /\ pc' = [pc EXCEPT ![c] = "done"]
    /\ UNCHANGED <<sw, t_lock, a_lock, backoff_delay, mode, calls, num_retry, local_delay,
                   rem, wrapped, waits, adm, span, streak>>

\* _run: except Exception as e
RunExcept(c, e, j) ==
    /\ UNCHANGED exceptRC
    /\ pc[c] = "call"
    /\ mode[c] = "sync"
    /\ outs' = [outs EXCEPT ![c] = Append(@, e)]
    /\ num_retry' = [num_retry EXCEPT ![c] = @ + 1]
    /\ IF Exhausted(num_retry[c] + 1)
       THEN /\ result' = [result EXCEPT ![c] = "exhausted"]
            /\ wrapped' = [wrapped EXCEPT ![c] = e]
            /\ pc' = [pc EXCEPT ![c] = "done"]
            /\ UNCHANGED <<local_delay, rem, waits>>
       ELSE /\ IF InBackoffOnErrors(e)
               THEN /\ rem' = [rem EXCEPT ![c] = local_delay[c]]
                    /\ waits' = [waits EXCEPT ![c] = Append(@, local_delay[c])]
                    /\ local_delay' = [local_delay EXCEPT ![c] = @ * (ExpBase + j)]
                    /\ pc' = [pc EXCEPT ![c] = "backoff_sleep"]
               ELSE /\ pc' = [pc EXCEPT ![c] = "gate"]
                    /\ UNCHANGED <<local_delay, rem, waits>>
            /\ UNCHANGED <<result, wrapped>>
    /\ UNCHANGED <<sw, t_lock, a_lock, backoff_delay, mode, calls, adm, span, streak>>

Older(q) == [i \in 1..Len(q) |-> Min(q[i] + 1, Period)]

\* one unit of time passes
Tick ==
    /\ UNCHANGED exceptRC
    /\ sw' = Older(sw)
    /\ adm' = Older(adm)
    /\ rem' = [c \in Callers |-> IF rem[c] > 0 THEN rem[c] - 1 ELSE 0]
    /\ UNCHANGED <<t_lock, a_lock, backoff_delay, mode, calls, pc, num_retry, local_delay,
                   result, wrapped, outs, waits, span, streak>>

\* the wrapper is called again by a caller whose previous call is over: _run / _arun start afresh
NewCall(c) ==
    /\ UNCHANGED exceptRC
    /\ pc[c] = "done"
    /\ calls[c] < MaxCalls
    /\ calls' = [calls EXCEPT ![c] = @ + 1]
    /\ pc' = [pc EXCEPT ![c] = "gate"]
    /\ num_retry' = [num_retry EXCEPT ![c] = 0]
    /\ local_delay' = [local_delay EXCEPT ![c] = InitDelay]
    /\ result' = [result EXCEPT ![c] = "none"]
    /\ wrapped' = [wrapped EXCEPT ![c] = NoError]
    /\ outs' = [outs EXCEPT ![c] = <<>>]
    /\ waits' = [waits EXCEPT ![c] = <<>>]
    /\ UNCHANGED <<sw, t_lock, a_lock, backoff_delay, mode, rem, adm, span, streak>>

\* the controller as constructed, and every caller of `m` at the start of its first call
RCInit(m) ==
    /\ sw = <<>>
    /\ t_lock = Free
    /\ a_lock = Free
    /\ backoff_delay = InitDelay
    /\ mode = m
    /\ pc = [c \in Callers |-> IF m[c] = "off" THEN "off" ELSE "gate"]
    /\ num_retry = [c \in Callers |-> 0]
    /\ local_delay = [c \in Callers |-> InitDelay]
    /\ rem = [c \in Callers |-> 0]
    /\ result = [c \in Callers |-> "none"]
    /\ calls = [c \in Callers |-> IF m[c] = "off" THEN 0 ELSE 1]
    /\ wrapped = [c \in Callers |-> NoError]
    /\ outs = [c \in Callers |-> <<>>]
    /\ waits = [c \in Callers |-> <<>>]
    /\ adm = <<>>
    /\ span = Period
    /\ streak = 0

----------------------------------------------------------------------------
(* The markup tree (bs4) *)

\* Text is a sequence of characters, each a one-character string; NBSP stands for '\xa0'.
NBSP == "nbsp"

TagNode(n) == [type |-> "Tag", name |-> n, text |-> <<>>]
StringNode(t) == [type |-> "NavigableString", name |-> "None", text |-> t]
CommentNode == [type |-> "Comment", name |-> "None", text |-> <<"c">>]

\* the nodes a document is built from
NodeChoices ==
    {TagNode("div"), TagNode("span"), TagNode("script"),
     StringNode(<<"a", "\n">>), StringNode(<<"\n">>), CommentNode}

\* the BeautifulSoup object itself: node 0, named '[document]'
Document == 0

NameOf(t, ele) == IF ele = Document THEN "[document]" ELSE t[ele].name

RECURSIVE AncestorsOrSelf(_, _)
AncestorsOrSelf(t, i) ==
    IF i = Document THEN {Document} ELSE {i} \cup AncestorsOrSelf(t, t[i].parent)

\* ele.contents: the children of ele, in order
Contents(t, ele) ==
    SelectSeq([i \in 1..Len(t) |-> i], LAMBDA i : t[i].parent = ele)

\* the node at ele.contents[cid]
ChildAt(t, ele, cid) == Contents(t, ele)[cid + 1]

----------------------------------------------------------------------------
(* InlineGroup *)

AssertionError == [raised |-> "AssertionError"]

\* (mutant) the constructor without its __post_init__ check
InlineGroupUnchecked(ts, cs, es) == [text_shreds |-> ts, cids |-> cs, elements |-> es]

\* InlineGroup(text_shreds, cids, elements), with __post_init__
InlineGroup(ts, cs, es) ==
    IF Len(ts) = Len(cs) /\ Len(cs) = Len(es)
    THEN [text_shreds |-> ts, cids |-> cs, elements |-> es]
    ELSE AssertionError

RECURSIVE Join(_)
\* ''.join(strings)
Join(ss) == IF ss = <<>> THEN <<>> ELSE Head(ss) \o Join(Tail(ss))

\* InlineGroup.__str__
GroupStr(g) == Join(g.text_shreds)

\* InlineGroup.__len__
GroupLen(g) == Len(g.text_shreds)

----------------------------------------------------------------------------
(* get_text_group_inline *)

InlineNames ==
    {"a", "abbr", "acronym", "b", "bdo", "big", "br", "button", "cite", "code", "dfn",
     "em", "i", "img", "input", "kbd", "label", "map", "object", "output", "q", "samp",
     "script", "select", "small", "span", "strong", "sub", "sup", "textarea", "time",
     "tt", "var"}

\* is_inline_ele
IsInlineEle(t, ele) == NameOf(t, ele) \in InlineNames

IgnoreCharSet == {"\n", NBSP}

\* set(c).issubset(ignore_char_set)
IsIgnorable(txt) == \A i \in 1..Len(txt) : txt[i] \in IgnoreCharSet

\* c.replace('\n', '')
StripNewlines(txt) == SelectSeq(txt, LAMBDA ch : ch # "\n")

\* isinstance(c, (Doctype, Comment)) or c.name == 'script'
IsSkipped(n) == n.type \in {"Doctype", "Comment"} \/ n.name = "script"

\* the value None, and a list, as traversal returns them
None == [is_none |-> TRUE, items |-> <<>>]
Some(g) == [is_none |-> FALSE, items |-> g]

\* (mutant) the running group of a block element is dropped at its end
FlushNever(all, group) == all

\* if group: all_groups.append(group)
Flush(all, group) == IF group # <<>> THEN Append(all, group) ELSE all

RECURSIVE Traversal(_, _, _), TraversalLoop(_, _, _, _, _)

\* traversal(ele), from the state st = (all_groups, cnt): what it returns and the state it leaves
Traversal(t, ele, st) == TraversalLoop(t, ele, 1, <<>>, st)

\* the loop over ele.contents from the i-th child on, with the running group
TraversalLoop(t, ele, i, group, st) ==
    LET kids == Contents(t, ele)
        inline == IsInlineEle(t, ele)
    IN IF i > Len(kids)
       THEN IF ~inline
            THEN [ret |-> None, all_groups |-> Flush(st.all_groups, group), cnt |-> st.cnt]
            ELSE [ret |-> Some(group), all_groups |-> st.all_groups, cnt |-> st.cnt]
       ELSE LET c == kids[i]
                cid == i - 1
            IN IF IsSkipped(t[c])
               THEN TraversalLoop(t, ele, i + 1, group, st)
               ELSE IF t[c].type = "NavigableString" /\ ~IsIgnorable(t[c].text)
               THEN TraversalLoop(t, ele, i + 1,
                        Append(group, [shred |-> StripNewlines(t[c].text), cid |-> cid,
                                       ele |-> ele, cnt |-> st.cnt]),
                        [all_groups |-> st.all_groups, cnt |-> st.cnt + 1])
               ELSE IF t[c].type = "Tag"
               THEN LET sub == Traversal(t, c, st)
                        after == [all_groups |-> sub.all_groups, cnt |-> sub.cnt]
                    IN IF ~sub.ret.is_none
                       THEN TraversalLoop(t, ele, i + 1, group \o sub.ret.items, after)
                       ELSE IF ~inline /\ group # <<>>
                       THEN TraversalLoop(t, ele, i + 1, <<>>,
                                [all_groups |-> Append(sub.all_groups, group), cnt |-> sub.cnt])
                       ELSE TraversalLoop(t, ele, i + 1, group, after)
               ELSE TraversalLoop(t, ele, i + 1, group, st)

\* the sort key: lambda x: x[0][3]
SortKey(g) == g[1].cnt

RECURSIVE InsertGroup(_, _)
InsertGroup(sorted, g) ==
    IF sorted = <<>> THEN <<g>>
    ELSE IF SortKey(sorted[Len(sorted)]) <= SortKey(g) THEN Append(sorted, g)
    ELSE Append(InsertGroup(SubSeq(sorted, 1, Len(sorted) - 1), g), sorted[Len(sorted)])

\* (mutant) the groups are left in the order they were completed
Unsorted(all) == all

RECURSIVE SortGroups(_)
\* all_groups.sort(key=lambda x: x[0][3])
SortGroups(all) ==
    IF all = <<>> THEN <<>>
    ELSE InsertGroup(SortGroups(SubSeq(all, 1, Len(all) - 1)), all[Len(all)])

\* get_text_group_inline(element) for the document: the OrderedDict as its entries in order
GetTextGroupInline(t) ==
    LET done == Traversal(t, Document, [all_groups |-> <<>>, cnt |-> 0])
        all == SortGroups(done.all_groups)
    IN [i \in 1..Len(all) |->
          [key |-> ToString(i - 1),
           group |-> InlineGroup([k \in 1..Len(all[i]) |-> all[i][k].shred],
                                 [k \in 1..Len(all[i]) |-> all[i][k].cid],
                                 [k \in 1..Len(all[i]) |-> all[i][k].ele])]]

NotMade == [raised |-> "nothing made"]

\* the parser appends one more node, in document order, under the document or an open tag
\* (a run either parses and extracts a document or constructs InlineGroups directly)
AddNode(p, k) ==
    /\ UNCHANGED exceptEx
    /\ ~extracted
    /\ made = NotMade
    /\ Len(tree) < MaxNodes
    /\ \/ p = Document
       \/ /\ p \in 1..Len(tree)
          /\ p \in AncestorsOrSelf(tree, Len(tree))
          /\ tree[p].type = "Tag"
    /\ tree' = Append(tree, [parent |-> p, type |-> k.type, name |-> k.name, text |-> k.text])
    /\ UNCHANGED <<extracted, groups_map, made>>

\* groups_map = get_text_group_inline(soup)
Extract ==
    /\ UNCHANGED exceptEx
    /\ ~extracted
    /\ made = NotMade
    /\ extracted' = TRUE
    /\ groups_map' = GetTextGroupInline(tree)
    /\ UNCHANGED <<tree, made>>

SeqUpTo(S, n) == UNION {[1..k -> S] : k \in 0..n}

\* InlineGroup(ts, cs, es) called directly
Construct(ts, cs, es) ==
    /\ UNCHANGED exceptEx
    /\ tree = <<>>
    /\ ~extracted
    /\ made' = [args |-> <<ts, cs, es>>, result |-> InlineGroup(ts, cs, es)]
    /\ UNCHANGED <<tree, extracted, groups_map>>

ExInit ==
    /\ tree = <<>>
    /\ extracted = FALSE
    /\ groups_map = <<>>
    /\ made = NotMade

----------------------------------------------------------------------------
(* segment_groups_map *)

\* math.ceil(a / b), for a >= 0 and b > 0
CeilDiv(a, b) == (a + b - 1) \div b

RECURSIVE TokenAll(_, _, _)
\* sum([token_counter(str(g)) for g in groups_map.values()]), from entry i on
TokenAll(gm, counter, i) ==
    IF i > Len(gm) THEN 0 ELSE counter[GroupStr(gm[i].group)] + TokenAll(gm, counter, i + 1)

\* (mutant) a group of exactly max_token tokens is skipped too
OversizedFrom(n, max_token) == n >= max_token

\* if n > max_token
Oversized(n, max_token) == n > max_token

\* (mutant) a segment is closed as soon as it has reached the target
ShouldCloseEarly(token_cnt, len_seg, seg) == token_cnt >= len_seg /\ seg # <<>>

\* (mutant) a segment is never closed
ShouldCloseNever(token_cnt, len_seg, seg) == FALSE

\* if (token_cnt > len_seg) and seg
ShouldClose(token_cnt, len_seg, seg) == token_cnt > len_seg /\ seg # <<>>

RECURSIVE SegmentLoop(_, _, _, _, _, _, _, _, _)
\* the loop over groups_map.items() from entry i on; a segment is its entries in order, each
\* with its key, its group and the place `src` of that group in groups_map
SegmentLoop(gm, counter, max_token, len_seg, i, ret, seg, token_cnt, cnt) ==
    IF i > Len(gm) THEN Append(ret, seg)
    ELSE LET n == counter[GroupStr(gm[i].group)]
         IN IF Oversized(n, max_token)
            THEN SegmentLoop(gm, counter, max_token, len_seg, i + 1, ret, seg, token_cnt, cnt)
            ELSE LET close == ShouldClose(token_cnt, len_seg, seg)
                     ret1 == IF close THEN Append(ret, seg) ELSE ret
                     seg1 == IF close THEN <<>> ELSE seg
                     token_cnt1 == IF close THEN 0 ELSE token_cnt
                     cnt1 == IF close THEN 0 ELSE cnt
                 IN SegmentLoop(gm, counter, max_token, len_seg, i + 1, ret1,
                        Append(seg1, [key |-> ToString(cnt1), group |-> gm[i].group, src |-> i]),
                        token_cnt1 + n, cnt1 + 1)

\* the target size of a segment: len_seg
LenSeg(token_all, max_token) == CeilDiv(token_all, CeilDiv(token_all, max_token))

\* (mutant) a total of zero gives one empty segment instead of the empty list
SegmentGroupsMapNoGuard(gm, max_token, counter) ==
    LET token_all == TokenAll(gm, counter, 1)
    IN IF token_all = 0 THEN << <<>> >>
       ELSE SegmentLoop(gm, counter, max_token, LenSeg(token_all, max_token), 1,
                        <<>>, <<>>, 0, 0)

\* segment_groups_map(groups_map, max_token, token_counter)
SegmentGroupsMap(gm, max_token, counter) ==
    LET token_all == TokenAll(gm, counter, 1)
    IN IF token_all = 0 THEN <<>>
       ELSE SegmentLoop(gm, counter, max_token, LenSeg(token_all, max_token), 1,
                        <<>>, <<>>, 0, 0)

\* the texts of the groups given to the segmenter
SegTexts == {<<"a">>, <<"b">>, <<"c">>}

\* the caller's map gets one more group
SegAddGroup(txt) ==
    /\ UNCHANGED exceptSg
    /\ ~sg_done
    /\ Len(sg_map) < MaxGroups
    /\ sg_map' = Append(sg_map, [key |-> ToString(Len(sg_map)),
                                 group |-> InlineGroup(<<txt>>, <<0>>, <<Document>>)])
    /\ UNCHANGED <<sg_counter, sg_max, sg_ret, sg_done>>

\* segment_groups_map(groups_map, max_token, token_counter) is called
Segment(max_token) ==
    /\ UNCHANGED exceptSg
    /\ ~sg_done
    /\ sg_max' = max_token
    /\ sg_ret' = SegmentGroupsMap(sg_map, max_token, sg_counter)
    /\ sg_done' = TRUE
    /\ UNCHANGED <<sg_map, sg_counter>>

\* nothing is being segmented
SgIdle ==
    /\ sg_map = <<>>
    /\ sg_counter = [txt \in SegTexts |-> 1]
    /\ sg_max = 1
    /\ sg_ret = <<>>
    /\ sg_done = FALSE

\* an empty map and any token counter
SgInit ==
    /\ sg_map = <<>>
    /\ sg_counter \in [SegTexts -> 0..MaxCount]
    /\ sg_max = 1
    /\ sg_ret = <<>>
    /\ sg_done = FALSE

----------------------------------------------------------------------------
(* match_score *)

ValueError == [raised |-> "ValueError"]

IsRaised(x) == "raised" \in DOMAIN x

\* the keys of the dict given to str.maketrans (translate.py:55-62), each a string; the fifth
\* key of the source file is the three characters U+00EF U+00BC U+0152
CompactKeys ==
    {<<" ">>, <<"\n">>, <<"\t">>, <<",">>, <<"U+00EF", "U+00BC", "U+0152">>, <<".">>}

\* str.maketrans(dict): 'string keys in translate table must be of length 1'
MakeTrans(keys) ==
    IF \E k \in keys : Len(k) # 1 THEN ValueError
    ELSE [deleted |-> {k[1] : k \in keys}]

\* s.translate(compact_tab)
Translate(s, tab) == SelectSeq(s, LAMBDA ch : ch \notin tab.deleted)

\* s.lower()
Lower(s) ==
    [i \in 1..Len(s) |-> CASE s[i] = "A" -> "a" [] s[i] = "B" -> "b" [] s[i] = "C" -> "c"
                           [] s[i] = "X" -> "x" [] s[i] = "Y" -> "y" [] OTHER -> s[i]]

RECURSIVE Matches(_, _)
\* the characters in the matching blocks of difflib.SequenceMatcher(None, a, b): the longest
\* common block (the earliest in a, then in b), then the same to its left and to its right
Matches(a, b) ==
    LET blocks == {x \in (1..Len(a)) \X (1..Len(b)) \X (1..Len(a)) :
                      /\ x[1] + x[3] - 1 <= Len(a)
                      /\ x[2] + x[3] - 1 <= Len(b)
                      /\ SubSeq(a, x[1], x[1] + x[3] - 1) = SubSeq(b, x[2], x[2] + x[3] - 1)}
    IN IF blocks = {} THEN 0
       ELSE LET best == CHOOSE x \in blocks : \A y \in blocks :
                            \/ x[3] > y[3]
                            \/ x[3] = y[3] /\ x[1] < y[1]
                            \/ x[3] = y[3] /\ x[1] = y[1] /\ x[2] <= y[2]
            IN best[3]
               + Matches(SubSeq(a, 1, best[1] - 1), SubSeq(b, 1, best[2] - 1))
               + Matches(SubSeq(a, best[1] + best[3], Len(a)), SubSeq(b, best[2] + best[3], Len(b)))

\* SequenceMatcher.ratio(): 2.0 * matches / length, and 1.0 for two empty strings; as a fraction
Ratio(a, b) ==
    IF Len(a) + Len(b) = 0 THEN [num |-> 1, den |-> 1]
    ELSE [num |-> 2 * Matches(a, b), den |-> Len(a) + Len(b)]

\* match_score(s1, s2): the ratio, or what building compact_tab raises
MatchScore(s1, s2) ==
    LET compact_tab == MakeTrans(CompactKeys)
    IN IF IsRaised(compact_tab) THEN compact_tab
       ELSE Ratio(Lower(Translate(s1, compact_tab)), Lower(Translate(s2, compact_tab)))

----------------------------------------------------------------------------
(* as_json_obj *)

\* A reply of the completion service is a sequence of tokens: braces, commas, "key": "value"
\* pairs and running text that is none of these.
LBrace == [t |-> "{", k |-> "", v |-> <<>>]
RBrace == [t |-> "}", k |-> "", v |-> <<>>]
Comma == [t |-> ",", k |-> "", v |-> <<>>]
Prose == [t |-> "text", k |-> "", v |-> <<>>]
Pair(k, v) == [t |-> "pair", k |-> k, v |-> v]

SetMin(S) == CHOOSE x \in S : \A y \in S : x <= y
SetMax(S) == CHOOSE x \in S : \A y \in S : x >= y

\* matches = re.findall(r'\{.*\}', raw, re.DOTALL); j_str = matches[0] if matches else ''
FirstObject(raw) ==
    LET opens == {i \in 1..Len(raw) : raw[i].t = "{"}
    IN IF opens = {} THEN <<>>
       ELSE LET closes == {j \in (SetMin(opens) + 1)..Len(raw) : raw[j].t = "}"}
            IN IF closes = {} THEN <<>>
               ELSE SubSeq(raw, SetMin(opens), SetMax(closes))

\* re.sub(r',\s*}', '}', j_str)
StripTrailingCommas(j) ==
    LET keep == SelectSeq([i \in 1..Len(j) |-> i],
                          LAMBDA i : ~(j[i].t = "," /\ i < Len(j) /\ j[i + 1].t = "}"))
    IN [i \in 1..Len(keep) |-> j[keep[i]]]

\* whether json.loads accepts j: an object of pairs separated by commas
IsJsonObject(j) ==
    /\ Len(j) >= 2
    /\ j[1].t = "{"
    /\ j[Len(j)].t = "}"
    /\ LET inner == SubSeq(j, 2, Len(j) - 1)
       IN \/ inner = <<>>
          \/ /\ Len(inner) % 2 = 1
             /\ \A i \in 1..Len(inner) : inner[i].t = (IF i % 2 = 1 THEN "pair" ELSE ",")

RECURSIVE DictOf(_, _, _)
\* the dict json.loads builds from the pairs of j, from token i on: a key given twice keeps
\* its place and takes the later value
DictOf(j, i, d) ==
    IF i > Len(j) THEN d
    ELSE IF j[i].t # "pair" THEN DictOf(j, i + 1, d)
    ELSE IF \E n \in 1..Len(d) : d[n].k = j[i].k
    THEN DictOf(j, i + 1, [n \in 1..Len(d) |-> IF d[n].k = j[i].k THEN [k |-> d[n].k, v |-> j[i].v]
                                               ELSE d[n]])
    ELSE DictOf(j, i + 1, Append(d, [k |-> j[i].k, v |-> j[i].v]))

\* as_json_obj(raw): None, or the decoded dict as its items in order
AsJsonObj(raw) ==
    LET j_str == StripTrailingCommas(FirstObject(raw))
    IN IF IsJsonObject(j_str) THEN Some(DictOf(j_str, 1, <<>>)) ELSE None

----------------------------------------------------------------------------
(* validate_fit_in, restruct *)

\* FitStatus: 'S', 'C' or 'F'
Status(x) == [status |-> x]

NoResult == [status |-> "none"]

\* (mutant) every child of ele is replaced
ReplaceAll(t, ele, cid, v) ==
    [i \in 1..Len(t) |-> IF t[i].parent = ele THEN [t[i] EXCEPT !.text = v] ELSE t[i]]

\* ele.contents[cid].replace_with(v)
ReplaceWith(t, ele, cid, v) == [t EXCEPT ![ChildAt(t, ele, cid)].text = v]

\* int(k) for the keys of a reply: the keys that are numerals, and their values
IntKeys == <<"0", "1", "2", "3", "4", "5", "6", "7", "8", "9">>

IsIntKey(k) == \E n \in 1..Len(IntKeys) : IntKeys[n] = k

IntOf(k) == (CHOOSE n \in 1..Len(IntKeys) : IntKeys[n] = k) - 1

Zero == [num |-> 0, den |-> 1]
One == [num |-> 1, den |-> 1]

\* score == 1.0, and a < b, for scores held as fractions
IsOne(x) == x.num = x.den
Less(a, b) == a.num * b.den < b.num * a.den

RECURSIVE SortedByInt(_)
\* sorted(shreds_out.items(), key=lambda x: int(x[0])): a stable insertion by int(key)
SortedByInt(items) ==
    IF items = <<>> THEN <<>>
    ELSE LET front == SortedByInt(SubSeq(items, 1, Len(items) - 1))
             last == items[Len(items)]
             before == SelectSeq(front, LAMBDA x : IntOf(x.k) <= IntOf(last.k))
             after == SelectSeq(front, LAMBDA x : IntOf(x.k) > IntOf(last.k))
         IN before \o <<last>> \o after

\* validate_fit_in(shreds_in, trans_str, shreds_out): the score and the reason, or what it
\* raises (int() of a key that is no numeral, match_score)
ValidateFitIn(n_in, trans_str, shreds_out) ==
    IF n_in # Len(shreds_out)
    THEN [score |-> Zero, err |-> "Length not match"]
    ELSE IF \E i \in 1..Len(shreds_out) : ~IsIntKey(shreds_out[i].k)
    THEN ValueError
    ELSE LET sorted == SortedByInt(shreds_out)
             fit_str == Join([i \in 1..Len(sorted) |-> sorted[i].v])
             score == MatchScore(trans_str, fit_str)
         IN IF IsRaised(score) THEN score
            ELSE IF ~IsOne(score) THEN [score |-> score, err |-> "String not match"]
            ELSE [score |-> One, err |-> ""]

RECURSIVE MaxCandidate(_, _, _)
\* max(fit_candidates, key=lambda x: x[0]): the first candidate of the greatest score
MaxCandidate(cands, i, best) ==
    IF i > Len(cands) THEN best
    ELSE MaxCandidate(cands, i + 1, IF Less(best.score, cands[i].score) THEN cands[i] ELSE best)

RECURSIVE ReplaceContents(_, _, _, _)
\* the loop `for k, v in shreds_out.items()` from item i on: the document it leaves and what
\* it raised, if anything (int(k) of a key that is no numeral, group.cids[int(k)] out of range)
ReplaceContents(t, group, items, i) ==
    IF i > Len(items) THEN [soup |-> t, error |-> ""]
    ELSE IF ~IsIntKey(items[i].k) THEN [soup |-> t, error |-> "ValueError"]
    ELSE IF IntOf(items[i].k) >= Len(group.cids) THEN [soup |-> t, error |-> "IndexError"]
    ELSE ReplaceContents(
             ReplaceWith(t, group.elements[IntOf(items[i].k) + 1],
                         group.cids[IntOf(items[i].k) + 1], items[i].v),
             group, items, i + 1)

\* (mutant) a candidate is never applied
ReplaceNothing(t, r) == [soup |-> t, pc |-> "returned", result |-> Status("C"), error |-> ""]

\* what follows the loop of restruct, for the call r: the candidate of the greatest score is
\* applied and 'S' or 'C' returned, or 'F' when there is no candidate
Finish(t, r) ==
    IF r.fit_candidates # <<>>
    THEN LET best == MaxCandidate(r.fit_candidates, 2, r.fit_candidates[1])
             done == ReplaceContents(t, r.group, best.shreds_out, 1)
         IN IF done.error # ""
            THEN [soup |-> done.soup, pc |-> "raised", result |-> NoResult, error |-> done.error]
            ELSE [soup |-> done.soup, pc |-> "returned",
                  result |-> IF Less(best.score, One) THEN Status("C") ELSE Status("S"),
                  error |-> ""]
    ELSE [soup |-> t, pc |-> "returned", result |-> Status("F"), error |-> ""]

\* the characters of the texts given to match_score
ScoreChars == {"a", "A", "b", " ", ","}

\* the candidates given to validate_fit_in
ScoreShreds ==
    {<<>>,
     <<[k |-> "0", v |-> <<"a">>]>>,
     <<[k |-> "0", v |-> <<"a">>], [k |-> "1", v |-> <<"b">>]>>,
     <<[k |-> "1", v |-> <<"b">>], [k |-> "0", v |-> <<"a">>]>>,
     <<[k |-> "x", v |-> <<"a">>], [k |-> "1", v |-> <<"b">>]>>}

MsIdle == [pc |-> "idle", s1 |-> <<>>, s2 |-> <<>>, n_in |-> 0, shreds_out |-> <<>>,
           result |-> NoResult]

\* match_score(s1, s2) is called
CallMatchScore ==
    /\ UNCHANGED exceptMs
    /\ ms.pc = "start"
    /\ ms' = [ms EXCEPT !.pc = "match_score", !.result = MatchScore(ms.s1, ms.s2)]

\* validate_fit_in(shreds_in, trans_str, shreds_out) is called, shreds_in of n_in shreds and
\* trans_str the text s1
CallValidateFitIn(n_in, shreds_out) ==
    /\ UNCHANGED exceptMs
    /\ ms.pc = "start"
    /\ ms' = [ms EXCEPT !.pc = "validate_fit_in", !.n_in = n_in, !.shreds_out = shreds_out,
                        !.result = ValidateFitIn(n_in, ms.s1, shreds_out)]

\* two texts are given
MsInit ==
    /\ ms \in {[MsIdle EXCEPT !.pc = "start", !.s1 = a, !.s2 = b] :
                  a \in SeqUpTo(ScoreChars, MaxText), b \in SeqUpTo(ScoreChars, MaxText)}

RsIdle ==
    [pc |-> "idle", group |-> InlineGroup(<<>>, <<>>, <<>>), trans |-> <<>>, before |-> <<>>,
     retry |-> 0, temperature |-> 0, fit_candidates |-> <<>>, requests |-> 0,
     attempts |-> <<>>, result |-> NoResult, error |-> ""]

\* the translations given to restruct
RsTrans == {<<"X", "Y">>}

\* the replies of the completion service to the restruct prompt: nothing decodable; an empty
\* object; shreds "0" and "1" that fit, in both orders; shreds that do not fit; one shred too
\* few; one shred too many
RsReplies ==
    {<<Prose>>,
     <<LBrace, RBrace>>,
     <<LBrace, Pair("0", <<"X">>), Comma, Pair("1", <<"Y">>), RBrace>>,
     <<LBrace, Pair("1", <<"Y">>), Comma, Pair("0", <<"X">>), RBrace>>,
     <<LBrace, Pair("0", <<"Y">>), Comma, Pair("1", <<"X">>), RBrace>>,
     <<LBrace, Pair("0", <<"X", "Y">>), RBrace>>,
     <<LBrace, Pair("0", <<"X">>), Comma, Pair("1", <<"Y">>), Comma, Pair("2", <<"Z">>), RBrace>>}

\* restruct(group, ori, trans) is called for the n-th group of the document, up to its first
\* request; temperature is held as the number of times it was multiplied by 1.6
RestructCall(n, trans) ==
    /\ UNCHANGED exceptRs
    /\ rs.pc = "idle"
    /\ LET gm == GetTextGroupInline(soup)
       IN /\ n \in 1..Len(gm)
          /\ GroupLen(gm[n].group) >= 2
          /\ rs' = [RsIdle EXCEPT !.pc = "request", !.group = gm[n].group, !.trans = trans,
                                  !.before = soup, !.requests = 1]
    /\ UNCHANGED soup

\* the except branch of the loop, then the next request or what follows the loop
Except(t, r) ==
    LET r1 == [r EXCEPT !.retry = @ + 1, !.temperature = @ + 1]
    IN IF r1.retry > RestructMaxRetry
       THEN LET fin == Finish(t, r1)
            IN [soup |-> fin.soup,
                rs |-> [r1 EXCEPT !.pc = fin.pc, !.result = fin.result, !.error = fin.error]]
       ELSE [soup |-> t, rs |-> [r1 EXCEPT !.requests = @ + 1]]

\* the stream of a request of restruct ends with a reply: it is decoded and validated, the
\* candidate kept, and restruct either leaves its loop and applies, or retries
RestructReply(reply) ==
    /\ UNCHANGED exceptRs
    /\ rs.pc = "request"
    /\ LET shreds_out == AsJsonObj(reply)
           valid == ValidateFitIn(GroupLen(rs.group), rs.trans, shreds_out.items)
           r0 == [rs EXCEPT !.attempts = Append(@, reply)]
       IN IF shreds_out.is_none \/ shreds_out.items = <<>> \/ IsRaised(valid)
          THEN LET nxt == Except(soup, r0)
               IN soup' = nxt.soup /\ rs' = nxt.rs
          ELSE LET r1 == [r0 EXCEPT !.fit_candidates =
                              Append(@, [score |-> valid.score, shreds_out |-> shreds_out.items])]
               IN IF valid.err # ""
                  THEN LET nxt == Except(soup, r1)
                       IN soup' = nxt.soup /\ rs' = nxt.rs
                  ELSE LET fin == Finish(soup, r1)
                       IN /\ soup' = fin.soup
                          /\ rs' = [r1 EXCEPT !.pc = fin.pc, !.result = fin.result,
                                              !.error = fin.error]

\* a request of restruct raises (the executor's 'Maximum retry reached')
RestructError ==
    /\ UNCHANGED exceptRs
    /\ rs.pc = "request"
    /\ LET nxt == Except(soup, [rs EXCEPT !.attempts = Append(@, <<>>)])
       IN soup' = nxt.soup /\ rs' = nxt.rs

----------------------------------------------------------------------------
(* group_fit_in, translate_groups, translation_pipeline *)

\* group_fit_in(group, ori, trans), up to its return or to the call of restruct
GroupFitIn(t, group, ori, trans) ==
    LET score == MatchScore(GroupStr(group), trans)
    IN IF IsRaised(score)
       THEN [soup |-> t, state |-> "done", result |-> score]
       ELSE IF score.num = score.den
       THEN [soup |-> t, state |-> "done", result |-> Status("S")]
       ELSE IF GroupLen(group) = 1
       THEN [soup |-> ReplaceWith(t, group.elements[1], group.cids[1], trans),
             state |-> "done", result |-> Status("S")]
       ELSE [soup |-> t, state |-> "restruct", result |-> NoResult]

\* whether seg has the key
HasKey(seg, key) == \E n \in 1..Len(seg) : seg[n].key = key

\* groups_map[i]
GroupAt(seg, key) == seg[CHOOSE n \in 1..Len(seg) : seg[n].key = key].group

\* groups_in[i]: str(v).replace('\n', '')
GroupsIn(seg, key) == StripNewlines(GroupStr(GroupAt(seg, key)))

RECURSIVE FitInTasks(_, _, _, _)
\* the loop over groups_out.items() from item i on: the fit-in tasks made, or the KeyError of
\* groups_map[i]
FitInTasks(seg, items, i, tasks) ==
    IF i > Len(items) THEN [error |-> "", tasks |-> tasks]
    ELSE IF ~HasKey(seg, items[i].k) THEN [error |-> "KeyError", tasks |-> tasks]
    ELSE FitInTasks(seg, items, i + 1,
             Append(tasks, [key |-> items[i].k, group |-> GroupAt(seg, items[i].k),
                            ori |-> GroupsIn(seg, items[i].k), trans |-> items[i].v,
                            state |-> "created", result |-> NoResult]))

\* n_tokens(text), for an encoding that gives every character its own token
NTokens(gm) == [txt \in {GroupStr(gm[n].group) : n \in 1..Len(gm)} |-> Len(txt)]

\* one node of a document
Node(p, k) == [parent |-> p, type |-> k.type, name |-> k.name, text |-> k.text]

\* the documents given to the pipeline: no text; one group of one leaf; one group of two
\* leaves; three groups of one leaf; a group of one leaf and a group of two; one group of two
\* leaves with a whitespace-only leaf between them
TrDocuments ==
    {<<>>,
     <<Node(0, TagNode("div")), Node(1, StringNode(<<"a">>))>>,
     <<Node(0, TagNode("div")), Node(1, StringNode(<<"a">>)), Node(1, TagNode("span")),
       Node(3, StringNode(<<"b">>))>>,
     <<Node(0, TagNode("div")), Node(1, StringNode(<<"a">>)), Node(0, TagNode("div")),
       Node(3, StringNode(<<"b">>)), Node(0, TagNode("div")), Node(5, StringNode(<<"c">>))>>,
     <<Node(0, TagNode("div")), Node(1, StringNode(<<"a">>)), Node(0, TagNode("div")),
       Node(3, StringNode(<<"b">>)), Node(3, TagNode("span")), Node(5, StringNode(<<"c">>))>>,
     <<Node(0, TagNode("div")), Node(1, StringNode(<<"a">>)), Node(1, StringNode(<<"\n">>)),
       Node(1, TagNode("span")), Node(4, StringNode(<<"b">>))>>}

\* the replies of the completion service to the translation prompt: nothing; prose only; an
\* empty object; key "0"; keys "0" and "1", in both orders; an object inside prose; a trailing
\* comma; two objects; an unknown key "7"; a reply cut short; key "0" with the text of the
\* group in another case and with a period
TrReplies ==
    LET p0 == Pair("0", <<"X">>)
        p1 == Pair("1", <<"Y">>)
        p7 == Pair("7", <<"Z">>)
    IN {<<>>,
        <<Prose>>,
        <<LBrace, RBrace>>,
        <<LBrace, p0, RBrace>>,
        <<LBrace, p0, Comma, p1, RBrace>>,
        <<LBrace, p1, Comma, p0, RBrace>>,
        <<Prose, LBrace, p0, Comma, p1, RBrace, Prose>>,
        <<LBrace, p0, Comma, RBrace>>,
        <<LBrace, p0, RBrace, Prose, LBrace, p1, RBrace>>,
        <<LBrace, p0, Comma, p7, RBrace>>,
        <<LBrace, p0, Comma>>,
        <<LBrace, Pair("0", <<"A", ".">>), RBrace>>}

\* the finish reasons of a stream
StopReasons == {"stop", "length"}

\* translation_pipeline(soup) up to its gather: the groups are extracted and segmented and one
\* translate_groups task per segment is made; max_token is int(conf.N_INPUT_TOKEN)
PipelineStart(max_token) ==
    /\ UNCHANGED exceptTr
    /\ pl.pc = "start"
    /\ LET gm == GetTextGroupInline(soup)
           segs == SegmentGroupsMap(gm, max_token, NTokens(gm))
       IN /\ segments' = segs
          /\ tg' = [s \in 1..Len(segs) |->
                       [pc |-> "stream", response |-> <<>>, stop_reason |-> "",
                        tasks |-> <<>>, results |-> <<>>, error |-> ""]]
    /\ pl' = [pl EXCEPT !.pc = "gather"]
    /\ UNCHANGED soup

\* translate_groups of segment s: the stream ends with the reply and the stop reason (a
\* 'length' stop raises RuntimeError, which is caught and passed); the reply is decoded and
\* one fit-in task per item of it is made and gathered
StreamEnd(s, reply, stop_reason) ==
    /\ UNCHANGED exceptTr
    /\ pl.pc = "gather"
    /\ s \in DOMAIN tg
    /\ tg[s].pc = "stream"
    /\ LET groups_out == AsJsonObj(reply)
           fit == FitInTasks(segments[s], groups_out.items, 1, <<>>)
           got == [tg[s] EXCEPT !.response = reply, !.stop_reason = stop_reason]
       IN tg' = [tg EXCEPT ![s] =
                    IF groups_out.is_none
                    THEN [got EXCEPT !.pc = "raised", !.error = "AttributeError"]
                    ELSE IF fit.error # ""
                    THEN [got EXCEPT !.pc = "raised", !.error = fit.error]
                    ELSE [got EXCEPT !.pc = "gather", !.tasks = fit.tasks]]
    /\ UNCHANGED <<soup, segments, pl>>

\* translate_groups of segment s: the executor raises Exception('Maximum retry reached'), which
\* `except RuntimeError` does not catch
StreamRaise(s) ==
    /\ UNCHANGED exceptTr
    /\ pl.pc = "gather"
    /\ s \in DOMAIN tg
    /\ tg[s].pc = "stream"
    /\ tg' = [tg EXCEPT ![s] = [@ EXCEPT !.pc = "raised", !.error = "Exception"]]
    /\ UNCHANGED <<soup, segments, pl>>

\* the k-th fit-in task of segment s runs group_fit_in; what it raises is kept as its result
\* (return_exceptions=True)
FitIn(s, k) ==
    /\ UNCHANGED exceptTr
    /\ pl.pc = "gather"
    /\ s \in DOMAIN tg
    /\ tg[s].pc = "gather"
    /\ k \in DOMAIN tg[s].tasks
    /\ tg[s].tasks[k].state = "created"
    /\ LET task == tg[s].tasks[k]
           step == GroupFitIn(soup, task.group, task.ori, task.trans)
       IN /\ soup' = step.soup
          /\ tg' = [tg EXCEPT ![s].tasks[k] =
                       [task EXCEPT !.state = step.state, !.result = step.result]]
    /\ UNCHANGED <<segments, pl>>

\* translate_groups of segment s returns the results of its gather
TranslateReturn(s) ==
    /\ UNCHANGED exceptTr
    /\ pl.pc = "gather"
    /\ s \in DOMAIN tg
    /\ tg[s].pc = "gather"
    /\ \A k \in DOMAIN tg[s].tasks : tg[s].tasks[k].state = "done"
    /\ tg' = [tg EXCEPT ![s] =
                 [@ EXCEPT !.pc = "returned",
                           !.results = [k \in DOMAIN tg[s].tasks |-> tg[s].tasks[k].result]]]
    /\ UNCHANGED <<soup, segments, pl>>

RECURSIVE Flatten(_)
\* [j for i in results for j in i]
Flatten(lists) == IF lists = <<>> THEN <<>> ELSE Head(lists) \o Flatten(Tail(lists))

\* translation_pipeline returns: every translate_groups task returned
PipelineReturn ==
    /\ UNCHANGED exceptTr
    /\ pl.pc = "gather"
    /\ \A s \in DOMAIN tg : tg[s].pc = "returned"
    /\ pl' = [pl EXCEPT !.pc = "returned",
                        !.results = Flatten([s \in DOMAIN tg |-> tg[s].results])]
    /\ UNCHANGED <<soup, segments, tg>>

\* translation_pipeline raises what a translate_groups task raised (its gather is without
\* return_exceptions); asyncio.run then cancels the tasks still running
PipelineRaise ==
    /\ UNCHANGED exceptTr
    /\ pl.pc = "gather"
    /\ \E s \in DOMAIN tg :
          /\ tg[s].pc = "raised"
          /\ pl' = [pl EXCEPT !.pc = "raised", !.error = tg[s].error]
    /\ UNCHANGED <<soup, segments, tg>>

PlStart == [pc |-> "start", results |-> <<>>, error |-> ""]

\* nothing is being translated
TrIdle ==
    /\ soup = <<>>
    /\ segments = <<>>
    /\ tg = <<>>
    /\ pl = PlStart
    /\ rs = RsIdle

\* the pipeline is given a document
TrInit ==
    /\ soup \in TrDocuments
    /\ segments = <<>>
    /\ tg = <<>>
    /\ pl = PlStart
    /\ rs = RsIdle

----------------------------------------------------------------------------
(* Specifications *)

\* no caller uses the controller
RCIdle == RCInit([c \in Callers |-> "off"])

\* two tasks of one event loop, one call each
InitAsync == RCInit([c \in Callers |-> "async"]) /\ ExInit /\ SgIdle /\ TrIdle /\ ms = MsIdle

NextAsync ==
    \/ \E c \in Callers : BlockByRate(c)
    \/ \E c \in Callers : BlockWake(c)
    \/ \E c \in Callers : ArunReturn(c)
    \/ \E c \in Callers, e \in Failures, j \in Jitter : ArunExcept(c, e, j)
    \/ \E c \in Callers : Retry(c)
    \/ Tick

SpecAsync == InitAsync /\ [][NextAsync]_vars

\* one task calling again and again
InitBackoff == RCInit([c \in Callers |-> IF c = "c1" THEN "async" ELSE "off"]) /\ ExInit /\ SgIdle /\ TrIdle /\ ms = MsIdle

NextBackoff ==
    \/ NextAsync
    \/ \E c \in Callers : NewCall(c)

SpecBackoff == InitBackoff /\ [][NextBackoff]_vars

\* one thread and one task sharing the controller, one call each
InitMixed == RCInit([c \in Callers |-> IF c = "c1" THEN "sync" ELSE "async"]) /\ ExInit /\ SgIdle /\ TrIdle /\ ms = MsIdle

NextMixed ==
    \/ NextAsync
    \/ \E c \in Callers : RunReturn(c)
    \/ \E c \in Callers, e \in Failures, j \in Jitter : RunExcept(c, e, j)

SpecMixed == InitMixed /\ [][NextMixed]_vars

\* a document is parsed and its groups extracted; InlineGroups are constructed directly
InitExtract == RCIdle /\ ExInit /\ SgIdle /\ TrIdle /\ ms = MsIdle

NextExtract ==
    \/ \E p \in 0..MaxNodes, k \in NodeChoices : AddNode(p, k)
    \/ Extract
    \/ \E ts \in SeqUpTo({<<"a">>}, MaxShreds), cs \in SeqUpTo({0}, MaxShreds),
          es \in SeqUpTo({Document}, MaxShreds) : Construct(ts, cs, es)

SpecExtract == InitExtract /\ [][NextExtract]_vars

\* a map of groups is built and segmented
InitSegment == RCIdle /\ ExInit /\ SgInit /\ TrIdle /\ ms = MsIdle

NextSegment ==
    \/ \E txt \in SegTexts : SegAddGroup(txt)
    \/ \E max_token \in 1..MaxBudget : Segment(max_token)

SpecSegment == InitSegment /\ [][NextSegment]_vars

\* a document goes through the pipeline
InitTranslate == RCIdle /\ ExInit /\ SgIdle /\ TrInit /\ ms = MsIdle

NextTranslate ==
    \/ \E max_token \in 1..MaxBudget : PipelineStart(max_token)
    \/ \E s \in 1..MaxGroups, reply \in TrReplies, stop_reason \in StopReasons :
          StreamEnd(s, reply, stop_reason)
    \/ \E s \in 1..MaxGroups : StreamRaise(s)
    \/ \E s \in 1..MaxGroups, k \in 1..MaxGroups : FitIn(s, k)
    \/ \E s \in 1..MaxGroups : TranslateReturn(s)
    \/ PipelineReturn
    \/ PipelineRaise

SpecTranslate == InitTranslate /\ [][NextTranslate]_vars

\* restruct is called on a group of a document
InitRestruct == RCIdle /\ ExInit /\ SgIdle /\ TrInit /\ ms = MsIdle

NextRestruct ==
    \/ \E n \in 1..MaxGroups, trans \in RsTrans : RestructCall(n, trans)
    \/ \E reply \in RsReplies : RestructReply(reply)
    \/ RestructError

SpecRestruct == InitRestruct /\ [][NextRestruct]_vars

\* match_score and validate_fit_in are called on given texts
InitScore == RCIdle /\ ExInit /\ SgIdle /\ TrIdle /\ MsInit

NextScore ==
    \/ CallMatchScore
    \/ \E n_in \in 0..MaxShreds, shreds_out \in ScoreShreds : CallValidateFitIn(n_in, shreds_out)

SpecScore == InitScore /\ [][NextScore]_vars

\* a thread calls the synchronous wrapper once more
ThreadCall(c) ==
    /\ mode[c] = "sync"
    /\ calls[c] < MaxThreadCalls
    /\ NewCall(c)

\* one thread, calling more than once, and one task sharing the controller
NextShared ==
    \/ NextMixed
    \/ \E c \in Callers : ThreadCall(c)

SpecShared == InitMixed /\ [][NextShared]_vars

\* fair scheduling: time passes, a caller that can go on does, and the wrapped operation
\* always ends (by returning or by raising)
Fairness ==
    /\ WF_vars(Tick)
    /\ \A c \in Callers :
          /\ WF_vars(BlockByRate(c))
          /\ WF_vars(BlockWake(c))
          /\ WF_vars(Retry(c))
          /\ WF_vars(ArunReturn(c) \/ \E e \in Failures, j \in Jitter : ArunExcept(c, e, j))
          /\ WF_vars(RunReturn(c) \/ \E e \in Failures, j \in Jitter : RunExcept(c, e, j))

\* two tasks, fairly scheduled
FairAsync == SpecAsync /\ Fairness

\* one thread and one task, fairly scheduled
FairMixed == SpecMixed /\ Fairness

----------------------------------------------------------------------------
(* Claims about the rate controller *)

\* the admissions made so far, over all callers (one call each)
RECURSIVE SumOver(_, _)
SumOver(f, S) == IF S = {} THEN 0
                 ELSE LET x == CHOOSE y \in S : TRUE IN f[x] + SumOver(f, S \ {x})

Admissions == SumOver([c \in Callers |-> Len(outs[c]) + (IF pc[c] = "call" THEN 1 ELSE 0)], Callers)

\* C1: with limit=N and period=T, tasks calling through the asynchronous wrapper in any
\* interleaving never get N+1 admissions inside a trailing window of T time units: at every
\* admission, the admission N admissions earlier is at least T old.
C1_RateLimit == span >= Period

\* C1 witness: more than N admissions were made, and the latest was made right now while the
\* one before it is younger than T (the gate held it back until the oldest was T old).
C1_Witness ==
    /\ Admissions > Limit
    /\ Len(adm) = Limit
    /\ adm[Limit] = 0
    /\ adm[Limit - 1] < Period
    /\ span = Period

AllFailures(s) == \A i \in 1..Len(s) : s[i] \in Failures

\* C2: one call invokes the operation at most maxRetry+1 times; it raises 'retries exhausted'
\* exactly when all maxRetry+1 invocations failed, carrying the last failure; a success is
\* returned and is the call's last invocation.
C2_RetryCeiling ==
    \A c \in Callers :
        /\ Len(outs[c]) <= MaxRetry + 1
        /\ \A i \in 1..Len(outs[c]) : outs[c][i] = Ok => (i = Len(outs[c]) /\ result[c] = "ok")
        /\ result[c] = "ok" => (Len(outs[c]) > 0 /\ outs[c][Len(outs[c])] = Ok /\ pc[c] = "done")
        /\ result[c] = "exhausted" =>
              /\ Len(outs[c]) = MaxRetry + 1
              /\ AllFailures(outs[c])
              /\ wrapped[c] = outs[c][MaxRetry + 1]
              /\ pc[c] = "done"
        /\ (Len(outs[c]) = MaxRetry + 1 /\ AllFailures(outs[c])) => result[c] = "exhausted"

\* C2 witness: the thread's call exhausted its retries and the task's call succeeded on a retry.
C2_Witness ==
    /\ result["c1"] = "exhausted"
    /\ result["c2"] = "ok"
    /\ Len(outs["c2"]) = MaxRetry + 1

C4_SameSemantics ==
    \A c \in Callers, d \in Callers :
        (pc[c] = "done" /\ pc[d] = "done" /\ outs[c] = outs[d]) =>
            (Len(waits[c]) = Len(waits[d]) /\ result[c] = result[d])

----------------------------------------------------------------------------
(* Claims about the extractor *)

RECURSIVE UnderScript(_, _)
\* whether node i lies in the subtree of a script tag (the subtree itself included)
UnderScript(t, i) ==
    IF i = Document THEN FALSE
    ELSE (t[i].type = "Tag" /\ t[i].name = "script") \/ UnderScript(t, t[i].parent)

\* the text leaves of the document that are not ignorable (comments and script payloads are no text leaves)
TextLeaves(t) ==
    {i \in 1..Len(t) : /\ t[i].type = "NavigableString"
                        /\ ~IsIgnorable(t[i].text)
                        /\ ~UnderScript(t, i)}

\* the members of a GroupMap: (entry, index in the entry's group)
Members(gm) == {m \in (1..Len(gm)) \X (1..MaxNodes + 1) : m[2] <= Len(gm[m[1]].group.cids)}

\* the tree position a member stands for, and the node at it
PositionOf(gm, m) == <<gm[m[1]].group.elements[m[2]], gm[m[1]].group.cids[m[2]]>>
LeafOf(t, gm, m) == ChildAt(t, PositionOf(gm, m)[1], PositionOf(gm, m)[2])

MinLeaf(t, gm, i) ==
    CHOOSE x \in {LeafOf(t, gm, <<i, k>>) : k \in 1..GroupLen(gm[i].group)} :
        \A y \in {LeafOf(t, gm, <<i, k>>) : k \in 1..GroupLen(gm[i].group)} : x <= y

\* C6: the keys are "0", "1", ..., "n-1", given in increasing order of the groups' earliest
\* member; within a group the members are in strictly increasing document order, so the
\* first member is the earliest.
C6_KeyOrder ==
    extracted =>
        /\ \A i \in 1..Len(groups_map) : groups_map[i].key = ToString(i - 1)
        /\ \A i \in 1..Len(groups_map), j \in 1..Len(groups_map) :
              i < j => MinLeaf(tree, groups_map, i) < MinLeaf(tree, groups_map, j)
        /\ \A i \in 1..Len(groups_map) :
              /\ \A k \in 1..GroupLen(groups_map[i].group), l \in 1..GroupLen(groups_map[i].group) :
                    k < l => LeafOf(tree, groups_map, <<i, k>>) < LeafOf(tree, groups_map, <<i, l>>)
              /\ LeafOf(tree, groups_map, <<i, 1>>) = MinLeaf(tree, groups_map, i)

\* C6 witness: the traversal completed the groups out of document order, and the sort
\* put them right.
C6_Witness ==
    /\ extracted
    /\ Len(groups_map) >= 2
    /\ LET all == Traversal(tree, Document, [all_groups |-> <<>>, cnt |-> 0]).all_groups
       IN all # SortGroups(all)

RECURSIVE LeafTexts(_, _, _, _)
\* the texts of the leaves of entry i from member k on, newlines removed, concatenated
LeafTexts(t, gm, i, k) ==
    IF k > Len(gm[i].group.cids) THEN <<>>
    ELSE StripNewlines(t[LeafOf(t, gm, <<i, k>>)].text) \o LeafTexts(t, gm, i, k + 1)

SameLengths(ts, cs, es) == Len(ts) = Len(cs) /\ Len(cs) = Len(es)

\* C7: constructing an InlineGroup fails exactly when the three sequences differ in length;
\* a constructed group keeps them, its len is the number of shreds and its str their
\* concatenation; every group of extract has three sequences of one length, at least one
\* member, and its str is the concatenation of its leaves' texts (newlines removed).
C7_GroupShape ==
    /\ made # NotMade =>
          /\ made.result = AssertionError <=> ~SameLengths(made.args[1], made.args[2], made.args[3])
          /\ made.result # AssertionError =>
                /\ SameLengths(made.result.text_shreds, made.result.cids, made.result.elements)
                /\ GroupLen(made.result) = Len(made.args[1])
                /\ GroupStr(made.result) = Join(made.args[1])
    /\ extracted =>
          \A i \in 1..Len(groups_map) :
              LET g == groups_map[i].group
              IN /\ g # AssertionError
                 /\ SameLengths(g.text_shreds, g.cids, g.elements)
                 /\ GroupLen(g) >= 1
                 /\ GroupLen(g) = Len(g.cids)
                 /\ GroupStr(g) = LeafTexts(tree, groups_map, i, 1)

\* C7 witness: extract returned a group of several shreds.
C7_Witness ==
    /\ extracted
    /\ \E i \in 1..Len(groups_map) :
          /\ GroupLen(groups_map[i].group) >= 2
          /\ GroupStr(groups_map[i].group) = <<"a", "a">>

----------------------------------------------------------------------------
(* Claims about the segmenter *)

\* the token count of the i-th group of the map given
TokensOf(i) == sg_counter[GroupStr(sg_map[i].group)]

\* the places (segment, index) of the returned list
SegPlaces == {m \in (1..Len(sg_ret)) \X (1..MaxGroups + 1) : m[2] <= Len(sg_ret[m[1]])}

RECURSIVE SegSources(_, _)
\* the groups of the segments from segment s on, in list order, each as its place in the map
SegSources(ret, s) ==
    IF s > Len(ret) THEN <<>>
    ELSE [k \in 1..Len(ret[s]) |-> ret[s][k].src] \o SegSources(ret, s + 1)

\* the groups of the map that are not oversized, in map order
NotOversized == SelectSeq([i \in 1..Len(sg_map) |-> i], LAMBDA i : TokensOf(i) <= sg_max)

\* every group within the budget is in exactly one segment, every other one in none, and the
\* segments in list order hold the groups within the budget in map order
ExactCover ==
    /\ \A i \in 1..Len(sg_map) :
          Cardinality({m \in SegPlaces : sg_ret[m[1]][m[2]].src = i})
              = (IF TokensOf(i) <= sg_max THEN 1 ELSE 0)
    /\ \A m \in SegPlaces : sg_ret[m[1]][m[2]].group = sg_map[sg_ret[m[1]][m[2]].src].group
    /\ SegSources(sg_ret, 1) = NotOversized

\* C8 as claimed: for every map, max_token and token counter the segments cover exactly the
\* groups that are not oversized, once each and in order.
C8_Original == sg_done => ExactCover

\* C8 amended: the same, provided the total token count is not zero; when it is zero the
\* segmenter returns the empty list and no group is in any segment.
C8_Cover ==
    sg_done => IF TokenAll(sg_map, sg_counter, 1) = 0 THEN sg_ret = <<>> ELSE ExactCover

\* C8 witness: several segments were returned, a group was oversized and dropped, and a
\* group of zero tokens was placed.
C8_Witness ==
    /\ sg_done
    /\ Len(sg_ret) >= 2
    /\ \E i \in 1..Len(sg_map) : TokensOf(i) > sg_max
    /\ \E m \in SegPlaces : TokensOf(sg_ret[m[1]][m[2]].src) = 0

RECURSIVE SegTokens(_, _)
\* the combined token count of a segment, from its k-th entry on
SegTokens(seg, k) ==
    IF k > Len(seg) THEN 0 ELSE TokensOf(seg[k].src) + SegTokens(seg, k + 1)

----------------------------------------------------------------------------
(* Claims about the translation of a segment *)

\* whether the reply segment s got, its stream having ended, cannot be decoded or does not map
\* exactly the keys of the segment
BadReply(s) ==
    /\ tg[s].pc # "stream"
    /\ tg[s].error # "Exception"
    /\ LET out == AsJsonObj(tg[s].response)
       IN \/ out.is_none
          \/ \E n \in 1..Len(segments[s]) :
                ~\E i \in 1..Len(out.items) : out.items[i].k = segments[s][n].key
          \/ \E i \in 1..Len(out.items) : ~HasKey(segments[s], out.items[i].k)

\* the groups of segment s the decoded reply has no translation for (all of them, when the
\* reply cannot be decoded)
Unmapped(s) ==
    LET out == AsJsonObj(tg[s].response)
    IN {n \in 1..Len(segments[s]) :
           ~\E i \in 1..Len(out.items) : out.items[i].k = segments[s][n].key}

\* C10: when the reply to a segment cannot be decoded as an object, or lacks the key of a group
\* or has an unknown key, translate_groups raises nothing, the pipeline raises nothing, and the
\* statuses translate_groups returns are one per group of the segment, Fail for every group
\* without a translation.
C10_FailWithoutAbort ==
    \A s \in DOMAIN tg :
        BadReply(s) =>
            /\ tg[s].pc # "raised"
            /\ (\A r \in DOMAIN tg : tg[r].error # "Exception") => pl.pc # "raised"
            /\ tg[s].pc = "returned" =>
                  /\ Len(tg[s].results) = Len(segments[s])
                  /\ \A n \in Unmapped(s) :
                        \E k \in DOMAIN tg[s].results : tg[s].results[k] = Status("F")

\* C11: a 'Maximum retry reached' failure raised by the executor inside the task of a segment
\* is caught at that segment: translate_groups raises nothing and the pipeline raises nothing.
C11_ExhaustedIsolated ==
    \A s \in DOMAIN tg :
        tg[s].error = "Exception" =>
            /\ tg[s].pc # "raised"
            /\ pl.pc # "raised"

\* C12: when the stream of a segment ends with the finish reason 'length', the output of the
\* segment is dropped: no fit-in task is made for any of its groups, whatever was streamed
\* (a text leaf is replaced by fit-in tasks only, so none of the segment is changed).
C12_LengthDropped ==
    \A s \in DOMAIN tg :
        tg[s].stop_reason = "length" => tg[s].tasks = <<>>

\* C13: translate_groups returns one entry per group of its segment, in the order of the
\* groups in the segment, whatever keys the reply holds and in whatever order; and the
\* pipeline returns these lists concatenated in the order of the segments.
C13_OnePerGroupInOrder ==
    /\ \A s \in DOMAIN tg :
          tg[s].pc = "returned" =>
              /\ Len(tg[s].results) = Len(segments[s])
              /\ \A k \in DOMAIN tg[s].tasks :
                    k <= Len(segments[s]) => tg[s].tasks[k].key = segments[s][k].key
    /\ pl.pc = "returned" => pl.results = Flatten([s \in DOMAIN tg |-> tg[s].results])

----------------------------------------------------------------------------
(* Claims about the fit-back *)

\* a text without spaces, tabs, newlines, commas, periods and full-width commas, in lower case
Normal(txt) ==
    Lower(SelectSeq(txt, LAMBDA ch : ch \notin {" ", "\t", "\n", ",", ".", "U+FF0C"}))

\* the text of the i-th leaf of a group, as the document holds it
LeafText(g, i) == soup[ChildAt(soup, g.elements[i], g.cids[i])].text

\* C14: group_fit_in ends the trivial cases with status Success and without a completion
\* request: when the text of the group and the translation are equal after normalisation the
\* leaf is left as it was, and otherwise a group of one shred has its leaf replaced by the
\* translation.
C14_TrivialFitIn ==
    \A s \in DOMAIN tg : \A k \in DOMAIN tg[s].tasks :
        LET task == tg[s].tasks[k]
        IN (task.state # "created" /\ GroupLen(task.group) = 1) =>
              /\ task.state = "done"
              /\ task.result = Status("S")
              /\ LeafText(task.group, 1) =
                     (IF Normal(GroupStr(task.group)) = Normal(task.trans)
                      THEN task.group.text_shreds[1] ELSE task.trans)

\* whether a reply decodes into a candidate: an object with at least one shred
Decodable(reply) == ~AsJsonObj(reply).is_none /\ AsJsonObj(reply).items # <<>>

\* whether the call of restruct has ended
RsEnded == rs.pc \in {"returned", "raised"}

\* C15: restruct, for a group of several shreds, returns Fail exactly when no attempt gave a
\* decodable candidate, and then leaves the document as it was; otherwise it has applied the
\* candidate of the greatest score and returns Success when that score is 1.0 and Compromise
\* when it is not.
C15_BestCandidate ==
    RsEnded =>
        /\ rs.pc = "returned"
        /\ rs.result = Status("F") <=> ~\E i \in 1..Len(rs.attempts) : Decodable(rs.attempts[i])
        /\ rs.result = Status("F") => soup = rs.before
        /\ rs.result # Status("F") =>
              LET best == MaxCandidate(rs.fit_candidates, 2, rs.fit_candidates[1])
              IN /\ rs.result = (IF IsOne(best.score) THEN Status("S") ELSE Status("C"))
                 /\ soup = ReplaceContents(rs.before, rs.group, best.shreds_out, 1).soup

\* whether no attempt of the call kept a candidate that fits the translation exactly
NoExactCandidate == \A i \in 1..Len(rs.fit_candidates) : ~IsOne(rs.fit_candidates[i].score)

C17_Scores ==
    /\ ms.pc = "match_score" =>
          /\ ~IsRaised(ms.result)
          /\ IsOne(ms.result) <=> Normal(ms.s1) = Normal(ms.s2)
          /\ ~IsOne(ms.result) => Less(ms.result, One)
    /\ (ms.pc = "validate_fit_in" /\ \A i \in 1..Len(ms.shreds_out) : IsIntKey(ms.shreds_out[i].k)) =>
          /\ ~IsRaised(ms.result)
          /\ ms.n_in # Len(ms.shreds_out) => ms.result.score = Zero
          /\ ms.n_in = Len(ms.shreds_out) =>
                LET sorted == SortedByInt(ms.shreds_out)
                    fit_str == Join([i \in 1..Len(sorted) |-> sorted[i].v])
                IN IsOne(ms.result.score) <=> Normal(ms.s1) = Normal(fit_str)

----------------------------------------------------------------------------
(* Claims about the shared rate controller *)

\* the callers between the check of the window (full(), get()) and the push of their timestamp
InGate == {c \in Callers : pc[c] = "gate_sleep"}

\* C18: with threads and tasks sharing one controller, at most one caller at a time is between
\* the check of the window and the push of its timestamp, and the window never holds more
\* than `limit` timestamps.
C18_OneGate ==
    /\ Cardinality(InGate) <= 1
    /\ Len(sw) <= Limit

\* whether the i-th outcome of caller c's call is a failure of a kind outside
\* backoff_on_errors after which the call retries
PlainRetried(o, i) == o[i] \in Failures /\ ~IsInstanceOfAny(o[i]) /\ ~Exhausted(i)

\* C19: a failure of a kind that is not backoff-eligible, with retries left, makes the
\* executor wait exactly the initial delay before it retries, and leaves the controller's
\* backoff delay as it is.
C19_PlainFailure ==
    /\ [](\A c \in Callers : \A i \in 1..Len(outs[c]) :
              PlainRetried(outs[c], i) => (Len(waits[c]) >= i /\ waits[c][i] = InitDelay))
    /\ [][\A c \in Callers :
              (Len(outs'[c]) = Len(outs[c]) + 1 /\ PlainRetried(outs'[c], Len(outs'[c])))
                  => backoff_delay' = backoff_delay]_vars

----------------------------------------------------------------------------
(* Claims about block-level children *)

\* whether a block-level subtree (outside any script) stands between the leaves l1 and l2 of
\* the document: it begins after l1 and has ended before l2
BlockBetween(t, l1, l2) ==
    \E b \in 1..Len(t) :
        /\ t[b].type = "Tag"
        /\ ~IsInlineEle(t, b)
        /\ ~UnderScript(t, b)
        /\ l1 < b
        /\ b < l2
        /\ b \notin AncestorsOrSelf(t, l2)

\* C20: a block-level child flushes the running group of the current node, be that node
\* block-level or inline, so that a text leaf before a block-level subtree and a text leaf
\* after it are never members of the same InlineGroup.
C20_BlockSeparates ==
    extracted =>
        \A m1 \in Members(groups_map), m2 \in Members(groups_map) :
            (m1[1] = m2[1] /\ m1[2] < m2[2]) =>
                ~BlockBetween(tree, LeafOf(tree, groups_map, m1), LeafOf(tree, groups_map, m2))

----------------------------------------------------------------------------
(* Claims about the attempts of restruct *)

\* whether a reply is a candidate that fits the translation exactly: as many shreds as the
\* group, which joined in the order of their indices equal the translation after normalisation
ExactFit(reply) ==
    LET out == AsJsonObj(reply)
    IN /\ Decodable(reply)
       /\ Len(out.items) = GroupLen(rs.group)
       /\ \A i \in 1..Len(out.items) : IsIntKey(out.items[i].k)
       /\ LET sorted == SortedByInt(out.items)
          IN Normal(Join([i \in 1..Len(sorted) |-> sorted[i].v])) = Normal(rs.trans)

\* the attempts among the first n that satisfy P
CountAttempts(n, P(_)) == Cardinality({i \in 1..n : P(rs.attempts[i])})

\* C21: restruct makes at most max_retry + 1 requests; it stops at the first attempt whose
\* candidate fits exactly; every other attempt counts as one retry and one multiplication of
\* the temperature; and every decodable attempt adds exactly one (score, candidate) pair.
C21_BoundedAttempts ==
    LET n == Len(rs.attempts)
        NotExact(reply) == ~ExactFit(reply)
    IN /\ rs.requests <= RestructMaxRetry + 1
       /\ \A i \in 1..n : ExactFit(rs.attempts[i]) => (i = n /\ RsEnded)
       /\ rs.retry = CountAttempts(n, NotExact)
       /\ rs.temperature = rs.retry
       /\ Len(rs.fit_candidates) = CountAttempts(n, Decodable)

----------------------------------------------------------------------------
(* Claims about what the fit-back changes *)

\* whether two documents have the same nodes at the same places
SameStructure(a, b) ==
    /\ Len(a) = Len(b)
    /\ \A i \in 1..Len(a) :
          a[i].parent = b[i].parent /\ a[i].type = b[i].type /\ a[i].name = b[i].name

\* the leaves of a group, as nodes of the document t
GroupLeaves(t, g) == {ChildAt(t, g.elements[i], g.cids[i]) : i \in 1..GroupLen(g)}

----------------------------------------------------------------------------
(* Claims about progress *)

\* C23: under fair scheduling, with an operation that always ends, every call on a shared
\* controller eventually returns a result or raises 'Maximum retry reached'; no caller waits
\* for ever at the gate or on the window.
C23_EveryCallEnds ==
    \A c \in Callers : (mode[c] # "off") ~> (pc[c] = "done")

----------------------------------------------------------------------------
(* Claims about what restruct applies *)

\* the candidate that restruct applies: the kept candidate of the greatest score
Applied == MaxCandidate(rs.fit_candidates, 2, rs.fit_candidates[1]).shreds_out

\* C24: restruct never raises; when it returns Success or Compromise, every key of the
\* candidate it applied is a shred index in 0..n-1 and every shred of the group is replaced
\* exactly once, so that no group is left partially replaced.
C24_TotalApply ==
    RsEnded =>
        /\ rs.pc = "returned"
        /\ rs.result \in {Status("S"), Status("C")} =>
              /\ \A i \in 1..Len(Applied) :
                    IsIntKey(Applied[i].k) /\ IntOf(Applied[i].k) < GroupLen(rs.group)
              /\ \A n \in 0..(GroupLen(rs.group) - 1) :
                    Cardinality({i \in 1..Len(Applied) : IntOf(Applied[i].k) = n}) = 1

----------------------------------------------------------------------------
(* Claims about the size of a segment *)

\* the target size of a segment in the call that was made
Target == LenSeg(TokenAll(sg_map, sg_counter, 1), sg_max)

\* C25: every returned segment has a combined token count of at most target + max_token,
\* hence of at most 2 * max_token, where target = ceil(total / ceil(total / max_token)); a
\* segment that was closed (every one but the last) had a running total above target when the
\* next group came.
C25_ClosedAboveTarget ==
    sg_done =>
        \A s \in 1..Len(sg_ret) :
            /\ SegTokens(sg_ret[s], 1) <= Target + sg_max
            /\ SegTokens(sg_ret[s], 1) <= 2 * sg_max
            /\ s < Len(sg_ret) => SegTokens(sg_ret[s], 1) > Target

\* C25 witness: a closed segment holds more than max_token tokens, and another one was
\* closed on a total of exactly target + 1.
C25_Witness ==
    /\ sg_done
    /\ \E s \in 1..(Len(sg_ret) - 1) : SegTokens(sg_ret[s], 1) > sg_max
    /\ \E s \in 1..(Len(sg_ret) - 1) : SegTokens(sg_ret[s], 1) = Target + 1

\* C26: the segmenter never returns an empty segment: it returns the empty list when the total
\* token count is zero, and otherwise every returned segment holds at least one group, also
\* when some or all groups are oversized and dropped.
C26_NoEmptySegment ==
    sg_done =>
        /\ TokenAll(sg_map, sg_counter, 1) = 0 => sg_ret = <<>>
        /\ \A s \in 1..Len(sg_ret) : sg_ret[s] # <<>>

\* C26 amended: the segmenter returns the empty list when the total token count is zero;
\* otherwise it returns at least one segment, and a returned segment is empty exactly when
\* every group is oversized and dropped, the result then being one empty segment.
C26_EmptyOnlyWhenAllDropped ==
    sg_done =>
        /\ TokenAll(sg_map, sg_counter, 1) = 0 => sg_ret = <<>>
        /\ TokenAll(sg_map, sg_counter, 1) > 0 => sg_ret # <<>>
        /\ (\E s \in 1..Len(sg_ret) : sg_ret[s] = <<>>)
              <=> /\ TokenAll(sg_map, sg_counter, 1) > 0
                  /\ \A i \in 1..Len(sg_map) : TokensOf(i) > sg_max
        /\ (\E s \in 1..Len(sg_ret) : sg_ret[s] = <<>>) => sg_ret = << <<>> >>

\* C26 witness: a map of several groups, every one oversized, gave one empty segment.
C26_Witness ==
    /\ sg_done
    /\ Len(sg_map) >= 2
    /\ sg_ret = << <<>> >>

====
